---- MODULE Spec2Model ----
(***************************************************************************)
(* Customer Notes (src/src/app/page.tsx): the Home component's state, its  *)
(* event handlers and its derived values, as a state machine.              *)
(*                                                                         *)
(* Encoding.  A JavaScript string that the code inspects character by      *)
(* character (a folder name, the rename draft, a note's title and content, *)
(* the search text) is a sequence of one-character strings.  An id is a    *)
(* TLA+ string; the sentinel "all" is itself, and JavaScript's null is the *)
(* string "null" (uid() returns neither).  Date.now() is the variable      *)
(* `now`, which only the Tick action and a handler's second reading of the *)
(* clock advance.  uid() is a fresh id: the model does not produce the     *)
(* collision of two random ids.                                            *)
(***************************************************************************)
EXTENDS Naturals, Integers, Sequences, FiniteSets, TLC

VARIABLES
  folders,          \* useState<Folder[]>            line 66
  notes,            \* useState<Note[]>              line 67
  activeFolderId,   \* useState<string>("all")       line 68
  activeNoteId,     \* useState<string | null>       line 69
  editingFolderId,  \* useState<string | null>       line 70
  folderDraft,      \* useState("")                  line 71
  search,           \* useState("")                  line 72
  loaded,           \* useState(false)               line 73
  expandedFolders,  \* useState<Set<string>>         line 74
  storage,          \* localStorage: cn_folders, cn_notes
  now,              \* the value Date.now() returns
  nextId,           \* how many ids uid() has handed out, plus one
  last              \* observation only: the handler call that led here, with the state before it

vars == << folders, notes, activeFolderId, activeNoteId, editingFolderId,
           folderDraft, search, loaded, expandedFolders, storage, now,
           nextId, last >>

\* ------------------------------------------------------------------ bounds

\* ids uid() may hand out in one behaviour of the interface
MaxIds == 3
\* the clock runs over 0..MaxTime
MaxTime == 1
\* length of a typed rename draft
MaxDraftLen == 1
\* length of a typed title, content or search text
MaxTextLen == 1
\* folders and notes of a drawn forest
MaxFolders == 3
MaxNotes == 2
\* notes of a drawn note list
MaxListNotes == 3
\* length of a drawn rename draft
MaxDrawnDraftLen == 3

\* ------------------------------------------------------------------ values

ALL == "all"
NULL == "null"

\* uid(): the n-th id handed out
uid(n) == "id" \o ToString(n)

NewCustomer == << "N", "e", "w", " ", "C", "u", "s", "t", "o", "m", "e", "r" >>
NewSubfolder == << "N", "e", "w", " ", "S", "u", "b", "f", "o", "l", "d", "e", "r" >>
Untitled == << "U", "n", "t", "i", "t", "l", "e", "d" >>

\* characters String.prototype.trim removes (those the model types)
Whitespace == { " ", "\t", "\n" }

\* ------------------------------------------------------------------ strings

\* all sequences over S of length at most n
SeqsUpTo(S, n) == UNION { [1..k -> S] : k \in 0..n }

RECURSIVE TrimStart(_)
TrimStart(s) ==
  IF s # << >> /\ Head(s) \in Whitespace THEN TrimStart(Tail(s)) ELSE s

RECURSIVE TrimEnd(_)
TrimEnd(s) ==
  IF s # << >> /\ s[Len(s)] \in Whitespace
  THEN TrimEnd(SubSeq(s, 1, Len(s) - 1))
  ELSE s

\* String.prototype.trim
Trim(s) == TrimEnd(TrimStart(s))

\* String.prototype.toLowerCase, one character
LowerChar(c) ==
  CASE c = "A" -> "a"
    [] c = "B" -> "b"
    [] OTHER -> c

\* String.prototype.toLowerCase
toLowerCase(s) == [i \in 1..Len(s) |-> LowerChar(s[i])]

\* String.prototype.includes
includes(s, sub) ==
  \E i \in 0..(Len(s) - Len(sub)) : SubSeq(s, i + 1, i + Len(sub)) = sub

\* ------------------------------------------------------------------ storage

Absent == [kind |-> "absent"]
Corrupt == [kind |-> "corrupt"]

\* JSON.stringify of an array of records
Stringify(v) == [kind |-> "json", value |-> v]

\* ------------------------------------------------------------------ folders

topLevelFolders == SelectSeq(folders, LAMBDA f : f.parentId = NULL)

getSubfolders(parentId) == SelectSeq(folders, LAMBDA f : f.parentId = parentId)

RECURSIVE getFolderAndDescendantsIn(_, _)
RECURSIVE flatMapDescendants(_, _)

\* children.flatMap((c) => getFolderAndDescendants(c.id))
flatMapDescendants(fs, children) ==
  IF children = << >>
  THEN << >>
  ELSE getFolderAndDescendantsIn(fs, Head(children).id)
         \o flatMapDescendants(fs, Tail(children))

\* a faulty variant: the folder and its direct children only
getFolderAndChildrenOnly(fs, folderId) ==
  LET children == SelectSeq(fs, LAMBDA f : f.parentId = folderId)
  IN << folderId >> \o [i \in 1..Len(children) |-> children[i].id]

\* getFolderAndDescendants over the folder array fs
getFolderAndDescendantsIn(fs, folderId) ==
  << folderId >>
    \o flatMapDescendants(fs, SelectSeq(fs, LAMBDA f : f.parentId = folderId))

getFolderAndDescendants(folderId) == getFolderAndDescendantsIn(folders, folderId)

\* new Set(array)
SetOf(s) == { s[i] : i \in 1..Len(s) }

\* ------------------------------------------------------------------ effects

\* `last` when the step that led here was not an observed handler call
NoCall == [op |-> "none"]

\* `last` after the handler call op(id), made in the current state
Call(op, id) ==
  [op |-> op, id |-> id, folders |-> folders, notes |-> notes,
   activeFolderId |-> activeFolderId, activeNoteId |-> activeNoteId]

\* parentId: folder.parentId ?? null
MigrateFolder(folder) ==
  [k \in (DOMAIN folder) \cup { "parentId" } |->
     IF k = "parentId"
     THEN (IF "parentId" \in DOMAIN folder THEN folder.parentId ELSE NULL)
     ELSE folder[k]]

\* a faulty variant: the save effects do not look at loaded
WriteBackUnguarded(ld, st, setF, fs, setN, ns) ==
  [cn_folders |-> IF setF THEN Stringify(fs) ELSE st.cn_folders,
   cn_notes |-> IF setN THEN Stringify(ns) ELSE st.cn_notes]

\* what the save effects write after a handler that called setFolders (setF)
\* and/or setNotes (setN)
WriteBack(ld, st, setF, fs, setN, ns) ==
  IF ld
  THEN [cn_folders |-> IF setF THEN Stringify(fs) ELSE st.cn_folders,
        cn_notes |-> IF setN THEN Stringify(ns) ELSE st.cn_notes]
  ELSE st

\* the load effect, then the render with loaded = true and its save effects
Load ==
  LET f == storage.cn_folders
      n == storage.cn_notes
      fs == IF f.kind = "json"
            THEN [i \in 1..Len(f.value) |-> MigrateFolder(f.value[i])]
            ELSE folders
      ns == IF f.kind # "corrupt" /\ n.kind = "json" THEN n.value ELSE notes
  IN /\ ~loaded
     /\ folders' = fs
     /\ notes' = ns
     /\ loaded' = TRUE
     /\ storage' = WriteBack(TRUE, storage, TRUE, fs, TRUE, ns)
     /\ UNCHANGED << activeFolderId, activeNoteId, editingFolderId, folderDraft,
                     search, expandedFolders, now, nextId >>
    /\ last' = NoCall

\* ------------------------------------------------------------------ folder ops

toggleExpanded(folderId) ==
  /\ expandedFolders' = IF folderId \in expandedFolders
                        THEN expandedFolders \ { folderId }
                        ELSE expandedFolders \cup { folderId }
  /\ UNCHANGED << folders, notes, activeFolderId, activeNoteId, editingFolderId,
                  folderDraft, search, loaded, storage, now, nextId >>

addFolder ==
  LET f == [id |-> uid(nextId), parentId |-> NULL, name |-> NewCustomer,
            createdAt |-> now]
  IN /\ folders' = Append(folders, f)
     /\ activeFolderId' = f.id
     /\ activeNoteId' = NULL
     /\ editingFolderId' = f.id
     /\ folderDraft' = NewCustomer
     /\ nextId' = nextId + 1
     /\ storage' = WriteBack(loaded, storage, TRUE, folders', FALSE, notes)
     /\ UNCHANGED << notes, search, loaded, expandedFolders, now >>

addSubfolder(parentId) ==
  LET f == [id |-> uid(nextId), parentId |-> parentId, name |-> NewSubfolder,
            createdAt |-> now]
  IN /\ folders' = Append(folders, f)
     /\ activeFolderId' = f.id
     /\ activeNoteId' = NULL
     /\ editingFolderId' = f.id
     /\ folderDraft' = NewSubfolder
     /\ expandedFolders' = expandedFolders \cup { parentId }
     /\ nextId' = nextId + 1
     /\ storage' = WriteBack(loaded, storage, TRUE, folders', FALSE, notes)
     /\ UNCHANGED << notes, search, loaded, now >>

\* a faulty variant: the fallback is taken before trimming
fallbackBeforeTrim(draft) == IF draft = << >> THEN Untitled ELSE Trim(draft)

\* folderDraft.trim() || "Untitled"
committedName(draft) == IF Trim(draft) = << >> THEN Untitled ELSE Trim(draft)

\* prev.map((f) => (f.id === id ? { ...f, name } : f))
renamed(fs, id, name) ==
  [i \in 1..Len(fs) |->
     IF fs[i].id = id THEN [fs[i] EXCEPT !.name = name] ELSE fs[i]]

commitRename(id) ==
  /\ folders' = renamed(folders, id, committedName(folderDraft))
  /\ editingFolderId' = NULL
  /\ storage' = WriteBack(loaded, storage, TRUE, folders', FALSE, notes)
  /\ UNCHANGED << notes, activeFolderId, activeNoteId, folderDraft, search,
                  loaded, expandedFolders, now, nextId >>

startRename(folder) ==
  /\ editingFolderId' = folder.id
  /\ folderDraft' = folder.name
  /\ UNCHANGED << folders, notes, activeFolderId, activeNoteId, search, loaded,
                  expandedFolders, storage, now, nextId >>

\* a faulty variant: only the folder itself goes
withoutFirstOnly(fs, ids) == SelectSeq(fs, LAMBDA f : f.id # ids[1])

\* prev.filter((f) => !idsToDelete.has(f.id)), ids the array the set is made of
withoutFolders(fs, ids) == SelectSeq(fs, LAMBDA f : f.id \notin SetOf(ids))

\* a faulty variant: only the notes of the folder itself go
withoutNotesOfFirst(ns, ids) == SelectSeq(ns, LAMBDA n : n.folderId # ids[1])

\* prev.filter((n) => !idsToDelete.has(n.folderId))
withoutNotesOf(ns, ids) == SelectSeq(ns, LAMBDA n : n.folderId \notin SetOf(ids))

\* a faulty variant: the selection is reset only when id itself is active
deletesExactly(ids, folderId) == folderId = ids[1]

\* idsToDelete.has(activeFolderId)
deletesActive(ids, folderId) == folderId \in SetOf(ids)

deleteFolder(id) ==
  LET idsToDelete == getFolderAndDescendants(id)
  IN /\ folders' = withoutFolders(folders, idsToDelete)
     /\ notes' = withoutNotesOf(notes, idsToDelete)
     /\ IF deletesActive(idsToDelete, activeFolderId)
        THEN activeFolderId' = ALL /\ activeNoteId' = NULL
        ELSE UNCHANGED << activeFolderId, activeNoteId >>
     /\ storage' = WriteBack(loaded, storage, TRUE, folders', TRUE, notes')
     /\ UNCHANGED << editingFolderId, folderDraft, search, loaded,
                     expandedFolders, now, nextId >>

\* ------------------------------------------------------------------ note ops

\* folders.find((f) => f.parentId === null), as the sequence of its results
firstTopLevel(fs) ==
  LET tops == SelectSeq(fs, LAMBDA f : f.parentId = NULL)
  IN IF tops = << >> THEN << >> ELSE << Head(tops) >>

\* a faulty variant: the selection is used as it is, "all" included
folderAsSelected(af, fs) == af

\* the folder addNote puts the note in: the selected one, or the first
\* top-level folder when the selection is "all"
noteFolder(af, fs) == IF af = ALL THEN firstTopLevel(fs)[1].id ELSE af

addNote ==
  IF activeFolderId = ALL /\ (Len(folders) = 0 \/ firstTopLevel(folders) = << >>)
  THEN UNCHANGED << folders, notes, activeFolderId, activeNoteId,
                    editingFolderId, folderDraft, search, loaded,
                    expandedFolders, storage, now, nextId >>
  ELSE \E t2 \in { t \in { now, now + 1 } : t <= MaxTime } :
         LET folderId == noteFolder(activeFolderId, folders)
             n == [id |-> uid(nextId), folderId |-> folderId,
                   title |-> << >>, content |-> << >>,
                   createdAt |-> now, updatedAt |-> t2]
         IN /\ activeFolderId' = folderId
            /\ notes' = << n >> \o notes
            /\ activeNoteId' = n.id
            /\ now' = t2
            /\ nextId' = nextId + 1
            /\ storage' = WriteBack(loaded, storage, FALSE, folders, TRUE, notes')
            /\ UNCHANGED << folders, editingFolderId, folderDraft, search,
                            loaded, expandedFolders >>

\* a faulty variant: the patch is merged and updatedAt is left as it was
patchedKeepingTime(n, patch, t) ==
  [k \in DOMAIN n |-> IF k \in DOMAIN patch THEN patch[k] ELSE n[k]]

\* { ...n, ...patch, updatedAt: Date.now() }
patched(n, patch, t) ==
  [k \in DOMAIN n |->
     IF k = "updatedAt" THEN t
     ELSE IF k \in DOMAIN patch THEN patch[k]
     ELSE n[k]]

\* a faulty variant: an update of an unknown id adds a note of that id
updatedOrInserted(ns, id, patch, t) ==
  IF \E i \in 1..Len(ns) : ns[i].id = id
  THEN [i \in 1..Len(ns) |->
          IF ns[i].id = id THEN patched(ns[i], patch, t) ELSE ns[i]]
  ELSE << patched([id |-> id, folderId |-> ALL, title |-> << >>,
                   content |-> << >>, createdAt |-> t, updatedAt |-> t],
                  patch, t) >> \o ns

\* prev.map((n) => n.id === id ? { ...n, ...patch, updatedAt: Date.now() } : n)
updated(ns, id, patch, t) ==
  [i \in 1..Len(ns) |->
     IF ns[i].id = id THEN patched(ns[i], patch, t) ELSE ns[i]]

updateNote(id, patch) ==
  /\ notes' = updated(notes, id, patch, now)
  /\ storage' = WriteBack(loaded, storage, FALSE, folders, TRUE, notes')
  /\ UNCHANGED << folders, activeFolderId, activeNoteId, editingFolderId,
                  folderDraft, search, loaded, expandedFolders, now, nextId >>

\* prev.filter((n) => n.id !== id)
withoutNote(ns, id) == SelectSeq(ns, LAMBDA n : n.id # id)

deleteNote(id) ==
  /\ notes' = withoutNote(notes, id)
  /\ activeNoteId' = IF activeNoteId = id THEN NULL ELSE activeNoteId
  /\ storage' = WriteBack(loaded, storage, FALSE, folders, TRUE, notes')
  /\ UNCHANGED << folders, activeFolderId, editingFolderId, folderDraft, search,
                  loaded, expandedFolders, now, nextId >>

\* ------------------------------------------------------------------ derived state

\* a faulty variant: the operands of the subtraction are exchanged
byUpdatedAsc(a, b) == a.updatedAt - b.updatedAt

\* the comparator (a, b) => b.updatedAt - a.updatedAt
byUpdatedDesc(a, b) == b.updatedAt - a.updatedAt

RECURSIVE insertUnstable(_, _)
\* a faulty variant: an element goes in front of its equals
insertUnstable(s, x) ==
  IF s = << >> THEN << x >>
  ELSE IF byUpdatedDesc(Head(s), x) >= 0 THEN << x >> \o s
  ELSE << Head(s) >> \o insertUnstable(Tail(s), x)

RECURSIVE insertStable(_, _)
\* x placed in the sorted s, behind every element the comparator does not put
\* after it
insertStable(s, x) ==
  IF s = << >> THEN << x >>
  ELSE IF byUpdatedDesc(Head(s), x) > 0 THEN << x >> \o s
  ELSE << Head(s) >> \o insertStable(Tail(s), x)

RECURSIVE sorted(_)
\* Array.prototype.sort with the comparator above: a stable sort
sorted(s) ==
  IF s = << >> THEN << >>
  ELSE insertStable(sorted(SubSeq(s, 1, Len(s) - 1)), s[Len(s)])

\* a faulty variant: the texts are compared as they are written
matchesCaseSensitive(n, text) ==
  \/ text = << >>
  \/ includes(n.title, text)
  \/ includes(n.content, text)

\* the search filter of visibleNotes
matches(n, text) ==
  \/ text = << >>
  \/ includes(toLowerCase(n.title), toLowerCase(text))
  \/ includes(toLowerCase(n.content), toLowerCase(text))

\* visibleNotes over given state
visibleNotesOf(fs, ns, folderId, text) ==
  LET scoped == IF folderId = ALL
                THEN ns
                ELSE LET activeFolderIds == SetOf(getFolderAndDescendantsIn(fs, folderId))
                     IN SelectSeq(ns, LAMBDA n : n.folderId \in activeFolderIds)
  IN sorted(SelectSeq(scoped, LAMBDA n : matches(n, text)))

visibleNotes == visibleNotesOf(folders, notes, activeFolderId, search)

\* notes.find((n) => n.id === activeNoteId) ?? null, as the sequence of its results
activeNote ==
  LET found == SelectSeq(notes, LAMBDA n : n.id = activeNoteId)
  IN IF found = << >> THEN << >> ELSE << Head(found) >>

\* folders.find((f) => f.id === activeFolderId) ?? null
activeFolder ==
  LET found == SelectSeq(folders, LAMBDA f : f.id = activeFolderId)
  IN IF found = << >> THEN << >> ELSE << Head(found) >>

\* ------------------------------------------------------------------ the interface

\* what the user types into the rename input, and into the title, the content
\* and the search box
DraftChars == { " ", "a" }
DraftInputs == SeqsUpTo(DraftChars, MaxDraftLen)
TextChars == { "a" }
TextInputs == SeqsUpTo(TextChars, MaxTextLen)

\* the folder rows the sidebar renders: every top-level folder, and the
\* subfolders of the expanded ones (lines 376-575)
renderedTop == SetOf(topLevelFolders)
renderedSubs ==
  UNION { SetOf(getSubfolders(f.id)) : f \in { t \in renderedTop : t.id \in expandedFolders } }
renderedRows == renderedTop \cup renderedSubs

\* the "All Notes" button
ClickAllNotes ==
  /\ loaded
  /\ activeFolderId' = ALL
  /\ activeNoteId' = NULL
  /\ UNCHANGED << folders, notes, editingFolderId, folderDraft, search, loaded,
                  expandedFolders, storage, now, nextId >>
    /\ last' = NoCall

\* the two "add customer" buttons
ClickAddFolder ==
  /\ loaded
  /\ nextId <= MaxIds
  /\ addFolder
  /\ last' = NoCall

\* a folder row that is not being renamed
ClickFolderRow ==
  \E f \in renderedRows :
    /\ loaded
    /\ editingFolderId # f.id
    /\ activeFolderId' = f.id
    /\ activeNoteId' = NULL
    /\ UNCHANGED << folders, notes, editingFolderId, folderDraft, search, loaded,
                    expandedFolders, storage, now, nextId >>
    /\ last' = NoCall

\* the chevron of a customer that has subfolders
ClickToggle ==
  \E f \in renderedTop :
    /\ loaded
    /\ Len(getSubfolders(f.id)) > 0
    /\ toggleExpanded(f.id)
    /\ last' = NoCall

\* the rename input of the row being renamed: typing
TypeFolderDraft ==
  \E f \in renderedRows, v \in DraftInputs :
    /\ loaded
    /\ editingFolderId = f.id
    /\ folderDraft' = v
    /\ UNCHANGED << folders, notes, activeFolderId, activeNoteId, editingFolderId,
                    search, loaded, expandedFolders, storage, now, nextId >>
    /\ last' = NoCall

\* the rename input: submit, or blur
SubmitRename ==
  \E f \in renderedRows :
    /\ loaded
    /\ editingFolderId = f.id
    /\ commitRename(f.id)
    /\ last' = NoCall

\* the rename input: Escape
EscapeRename ==
  \E f \in renderedRows :
    /\ loaded
    /\ editingFolderId = f.id
    /\ editingFolderId' = NULL
    /\ UNCHANGED << folders, notes, activeFolderId, activeNoteId, folderDraft,
                    search, loaded, expandedFolders, storage, now, nextId >>
    /\ last' = NoCall

\* a faulty variant: the button is on subfolder rows too
ClickAnyRowSubfolder ==
  \E f \in renderedRows :
    /\ loaded
    /\ editingFolderId # f.id
    /\ nextId <= MaxIds
    /\ addSubfolder(f.id)
    /\ last' = NoCall

\* the "add subfolder" button of a customer row
ClickRowSubfolder ==
  \E f \in renderedTop :
    /\ loaded
    /\ editingFolderId # f.id
    /\ nextId <= MaxIds
    /\ addSubfolder(f.id)
    /\ last' = NoCall

\* the "Subfolder" button of the note list's header
ClickHeaderSubfolder ==
  /\ loaded
  /\ activeFolder # << >>
  /\ activeFolder[1].parentId = NULL
  /\ nextId <= MaxIds
  /\ addSubfolder(activeFolderId)
  /\ last' = NoCall

\* the pencil of a row
ClickRename ==
  \E f \in renderedRows :
    /\ loaded
    /\ editingFolderId # f.id
    /\ startRename(f)
    /\ last' = NoCall

\* the bin of a row
ClickDeleteFolder ==
  \E f \in renderedRows :
    /\ loaded
    /\ editingFolderId # f.id
    /\ deleteFolder(f.id)
    /\ last' = [op |-> "deleteFolder", id |-> f.id,
                 activeFolderId |-> activeFolderId, activeNoteId |-> activeNoteId]

\* the three "new note" buttons, each there only when a folder exists
ClickNewNote ==
  /\ loaded
  /\ Len(folders) > 0
  /\ nextId <= MaxIds
  /\ addNote
  /\ last' = NoCall

\* the search box, and its clear button
TypeSearch ==
  \E v \in TextInputs :
    /\ loaded
    /\ search' = v
    /\ UNCHANGED << folders, notes, activeFolderId, activeNoteId, editingFolderId,
                    folderDraft, loaded, expandedFolders, storage, now, nextId >>
    /\ last' = NoCall

\* a card of the note list
ClickNote ==
  \E n \in SetOf(visibleNotes) :
    /\ loaded
    /\ activeNoteId' = n.id
    /\ UNCHANGED << folders, notes, activeFolderId, editingFolderId, folderDraft,
                    search, loaded, expandedFolders, storage, now, nextId >>
    /\ last' = NoCall

\* the bin of a card
ClickDeleteNote ==
  \E n \in SetOf(visibleNotes) :
    /\ loaded
    /\ deleteNote(n.id)
    /\ last' = NoCall

\* the editor's title input
TypeTitle ==
  \E v \in TextInputs :
    /\ loaded
    /\ activeNote # << >>
    /\ updateNote(activeNote[1].id, [title |-> v])
    /\ last' = NoCall

\* the editor's textarea
TypeContent ==
  \E v \in TextInputs :
    /\ loaded
    /\ activeNote # << >>
    /\ updateNote(activeNote[1].id, [content |-> v])
    /\ last' = NoCall

\* time passes
Tick ==
  /\ now < MaxTime
  /\ now' = now + 1
  /\ UNCHANGED << folders, notes, activeFolderId, activeNoteId, editingFolderId,
                  folderDraft, search, loaded, expandedFolders, storage, nextId >>
    /\ last' = NoCall

\* the component as constructed, over an empty localStorage
Init ==
  /\ folders = << >>
  /\ notes = << >>
  /\ activeFolderId = ALL
  /\ activeNoteId = NULL
  /\ editingFolderId = NULL
  /\ folderDraft = << >>
  /\ search = << >>
  /\ loaded = FALSE
  /\ expandedFolders = { }
  /\ storage = [cn_folders |-> Absent, cn_notes |-> Absent]
  /\ now = 0
  /\ nextId = 1
  /\ last = NoCall

Next ==
  \/ Load
  \/ ClickAllNotes
  \/ ClickAddFolder
  \/ ClickFolderRow
  \/ ClickToggle
  \/ TypeFolderDraft
  \/ SubmitRename
  \/ EscapeRename
  \/ ClickRowSubfolder
  \/ ClickHeaderSubfolder
  \/ ClickRename
  \/ ClickDeleteFolder
  \/ ClickNewNote
  \/ TypeSearch
  \/ ClickNote
  \/ ClickDeleteNote
  \/ TypeTitle
  \/ TypeContent
  \/ Tick

Spec == Init /\ [][Next]_vars

\* ------------------------------------------------------------------ drawn states

\* an id no folder and no note has
UnknownId == uid(0)

RECURSIVE reachesRoot(_, _, _)
\* following p from i ends at 0 (no parent) within fuel steps
reachesRoot(p, i, fuel) ==
  IF i = 0 THEN TRUE
  ELSE IF fuel = 0 THEN FALSE
  ELSE reachesRoot(p, p[i], fuel - 1)

\* the parent maps of the forests over folders 1..k (0: no parent); a parent
\* may stand before or after its child in the array
Forests(k) ==
  { p \in [1..k -> 0..k] : \A i \in 1..k : reachesRoot(p, i, k) }

\* the folder array of a forest
FoldersOf(k, p) ==
  [i \in 1..k |->
     [id |-> uid(i),
      parentId |-> IF p[i] = 0 THEN NULL ELSE uid(p[i]),
      name |-> IF p[i] = 0 THEN NewCustomer ELSE NewSubfolder,
      createdAt |-> 0]]

DrawnFolders == UNION { { FoldersOf(k, p) : p \in Forests(k) } : k \in 0..MaxFolders }

\* m notes after k folders, note j in folder own[j], last edited at at[j]
NotesOf(k, m, own, at) ==
  [j \in 1..m |->
     [id |-> uid(k + j), folderId |-> own[j], title |-> << >>,
      content |-> << >>, createdAt |-> 0, updatedAt |-> at[j]]]

\* the ids of a folder array
idsOf(fs) == { fs[i].id : i \in 1..Len(fs) }

\* a state of the loaded component, but for its collections and its selection
Drawn(fs, ns, af, an, draft, t) ==
  /\ folders = fs
  /\ notes = ns
  /\ activeFolderId = af
  /\ activeNoteId = an
  /\ editingFolderId = NULL
  /\ folderDraft = draft
  /\ search = << >>
  /\ loaded = TRUE
  /\ expandedFolders = { }
  /\ storage = [cn_folders |-> Stringify(fs), cn_notes |-> Stringify(ns)]
  /\ now = t
  /\ nextId = Len(fs) + Len(ns) + 1
  /\ last = NoCall

\* any forest of folders, notes in any of them or in none, any folder
\* selected, the first note active or none
InitDelete ==
  \E fs \in DrawnFolders, m \in 0..MaxNotes :
    \E own \in [1..m -> idsOf(fs) \cup { UnknownId }],
       af \in idsOf(fs) \cup { ALL } :
      \E an \in { uid(Len(fs) + j) : j \in 1..m \cap { 1 } } \cup { NULL } :
        Drawn(fs, NotesOf(Len(fs), m, own, [j \in 1..m |-> 0]), af, an, << >>, 0)

\* deleteFolder called once, with the id of a folder or with an unknown id
CallDeleteFolder ==
  \E id \in idsOf(folders) \cup { UnknownId } :
    /\ last = NoCall
    /\ deleteFolder(id)
    /\ last' = Call("deleteFolder", id)

SpecDelete == InitDelete /\ [][CallDeleteFolder]_vars

\* the rename drafts drawn, and the texts a drawn call types
DrawnDrafts == SeqsUpTo({ " ", "\t", "a" }, MaxDrawnDraftLen)
CallTexts == SeqsUpTo({ "a", "A" }, MaxTextLen)

\* any forest of folders and any rename draft
InitRename ==
  \E fs \in DrawnFolders, draft \in DrawnDrafts :
    Drawn(fs, << >>, ALL, NULL, draft, 0)

\* one customer holding any list of notes, edited at any times up to now
InitNotes ==
  \E m \in 0..MaxListNotes, t \in 0..MaxTime, af \in { ALL, uid(1) } :
    \E at \in [1..m -> 0..t], an \in { uid(1 + j) : j \in 1..m } \cup { NULL } :
      Drawn(FoldersOf(1, [i \in 1..1 |-> 0]),
            NotesOf(1, m, [j \in 1..m |-> uid(1)], at), af, an, << >>, t)

InitCalls == InitRename \/ InitNotes

noteIdsOf(ns) == { ns[i].id : i \in 1..Len(ns) }

CallAddFolder ==
  /\ last = NoCall
  /\ addFolder
  /\ last' = Call("addFolder", NULL)

CallAddSubfolder ==
  \E id \in idsOf(folders) :
    /\ last = NoCall
    /\ addSubfolder(id)
    /\ last' = Call("addSubfolder", id)

CallCommitRename ==
  \E id \in idsOf(folders) \cup { UnknownId } :
    /\ last = NoCall
    /\ commitRename(id)
    /\ last' = Call("commitRename", id)

CallUpdateNote ==
  \E id \in noteIdsOf(notes) \cup { UnknownId }, v \in CallTexts :
    \E patch \in { [title |-> v], [content |-> v] } :
      /\ last = NoCall
      /\ updateNote(id, patch)
      /\ last' = Call("updateNote", id)

CallDeleteNote ==
  \E id \in noteIdsOf(notes) \cup { UnknownId } :
    /\ last = NoCall
    /\ deleteNote(id)
    /\ last' = Call("deleteNote", id)

NextCalls ==
  \/ CallAddFolder
  \/ CallAddSubfolder
  \/ CallCommitRename
  \/ CallUpdateNote
  \/ CallDeleteNote

SpecCalls == InitCalls /\ [][NextCalls]_vars

\* ------------------------------------------------------------------ drawn views

\* the titles and contents of drawn notes: a title of two letters, a content
\* of two letters, and a letter in each
NoteBodies ==
  << [title |-> << "A", "b" >>, content |-> << >>],
     [title |-> << >>, content |-> << "b", "A" >>],
     [title |-> << "a" >>, content |-> << "B" >>] >>

\* the texts typed into the search box of a drawn view
ViewSearches ==
  { << >>, << "a" >>, << "a", "B" >>, << "a", "b", "a" >> }

\* ns, note j given the body that stands r + j places on in NoteBodies
withBodies(ns, r) ==
  [j \in 1..Len(ns) |->
     LET b == NoteBodies[((r + j) % Len(NoteBodies)) + 1]
     IN [ns[j] EXCEPT !.title = b.title, !.content = b.content]]

\* any forest of folders, notes in any of them, with titles and contents
InitView ==
  \E fs \in DrawnFolders, m \in 0..MaxNotes, r \in 0..(Len(NoteBodies) - 1) :
    \E own \in [1..m -> idsOf(fs)] :
      Drawn(fs, withBodies(NotesOf(Len(fs), m, own, [j \in 1..m |-> 0]), r),
            ALL, NULL, << >>, 0)

\* setActiveFolderId(id); setActiveNoteId(null): "All Notes", or a folder row
ViewFolder ==
  \E id \in idsOf(folders) \cup { ALL } :
    /\ loaded
    /\ activeFolderId' = id
    /\ activeNoteId' = NULL
    /\ UNCHANGED << folders, notes, editingFolderId, folderDraft, search, loaded,
                    expandedFolders, storage, now, nextId, last >>

\* setSearch(v)
ViewSearch ==
  \E v \in ViewSearches :
    /\ loaded
    /\ search' = v
    /\ UNCHANGED << folders, notes, activeFolderId, activeNoteId, editingFolderId,
                    folderDraft, loaded, expandedFolders, storage, now, nextId,
                    last >>

NextView ==
  \/ ViewFolder
  \/ ViewSearch

SpecView == InitView /\ [][NextView]_vars

\* ------------------------------------------------------------------ drawn edits

\* `last` after the k-th call in a row of the handler op(id, patch), made in
\* the current state at the current time
Called(op, id, patch, k) ==
  [op |-> op, id |-> id, patch |-> patch, calls |-> k, folders |-> folders,
   notes |-> notes, activeFolderId |-> activeFolderId,
   activeNoteId |-> activeNoteId, time |-> now]

\* the texts in the search box of a drawn editing state
EditSearches == { << >>, << "a" >> }

\* a customer and its subfolder, any list of notes in them with titles and
\* contents, edited at any times up to now; any selection, a search text or none
InitEdit ==
  \E m \in 0..MaxNotes, t \in 0..MaxTime, r \in 0..(Len(NoteBodies) - 1) :
    \E own \in [1..m -> { uid(1), uid(2) }], at \in [1..m -> 0..t],
       af \in { ALL, uid(1), uid(2) }, text \in EditSearches :
      LET fs == FoldersOf(2, << 0, 1 >>)
          ns == withBodies(NotesOf(2, m, own, at), r)
      IN /\ folders = fs
         /\ notes = ns
         /\ activeFolderId = af
         /\ activeNoteId = NULL
         /\ editingFolderId = NULL
         /\ folderDraft = << >>
         /\ search = text
         /\ loaded = TRUE
         /\ expandedFolders = { }
         /\ storage = [cn_folders |-> Stringify(fs), cn_notes |-> Stringify(ns)]
         /\ now = t
         /\ nextId = Len(fs) + Len(ns) + 1
         /\ last = NoCall

\* updateNote called with the id of a note and a title or a content
EditNote ==
  \E id \in noteIdsOf(notes), v \in CallTexts :
    \E patch \in { [title |-> v], [content |-> v] } :
      /\ last = NoCall
      /\ updateNote(id, patch)
      /\ last' = Called("updateNote", id, patch, 1)

\* the same call of updateNote once more
EditAgain ==
  /\ last.op = "updateNote"
  /\ last.calls = 1
  /\ updateNote(last.id, last.patch)
  /\ last' = Called("updateNote", last.id, last.patch, 2)

\* addNote called
EditAddNote ==
  /\ last = NoCall
  /\ addNote
  /\ last' = Called("addNote", NULL, << >>, 1)

\* time passes, before a call or after it
EditTick ==
  /\ now < MaxTime
  /\ now' = now + 1
  /\ UNCHANGED << folders, notes, activeFolderId, activeNoteId, editingFolderId,
                  folderDraft, search, loaded, expandedFolders, storage, nextId,
                  last >>

NextEdit ==
  \/ EditNote
  \/ EditAgain
  \/ EditAddNote
  \/ EditTick

SpecEdit == InitEdit /\ [][NextEdit]_vars

\* ------------------------------------------------------------------ drawn snapshots

\* the folder arrays found in cn_folders: the forests of up to two folders
StoredFolders == UNION { { FoldersOf(k, p) : p \in Forests(k) } : k \in 0..2 }

\* fs as a version without subfolders stored it: no parentId
OldFormat(fs) ==
  [i \in 1..Len(fs) |->
     [id |-> fs[i].id, name |-> fs[i].name, createdAt |-> fs[i].createdAt]]

\* what cn_folders may hold when the folders last saved were fs
StoredAs(fs) ==
  { Absent, Corrupt, Stringify(fs) }
    \cup (IF \A i \in 1..Len(fs) : fs[i].parentId = NULL
          THEN { Stringify(OldFormat(fs)) }
          ELSE { })

\* the component as constructed, over a localStorage that holds a snapshot of
\* folders and their notes, each entry as saved, unparsable, or missing
InitLoad ==
  \E fs \in StoredFolders, m \in 0..MaxNotes :
    \E own \in [1..m -> idsOf(fs)] :
      \E f \in StoredAs(fs),
         n \in { Absent, Corrupt,
                 Stringify(withBodies(NotesOf(Len(fs), m, own, [j \in 1..m |-> 0]), 0)) } :
        /\ folders = << >>
        /\ notes = << >>
        /\ activeFolderId = ALL
        /\ activeNoteId = NULL
        /\ editingFolderId = NULL
        /\ folderDraft = << >>
        /\ search = << >>
        /\ loaded = FALSE
        /\ expandedFolders = { }
        /\ storage = [cn_folders |-> f, cn_notes |-> n]
        /\ now = 0
        /\ nextId = Len(fs) + m + 1
        /\ last = NoCall

\* the effects of the first render: the load effect, then the two save
\* effects, which see the loaded, folders and notes of that render
LoadEffect ==
  LET f == storage.cn_folders
      n == storage.cn_notes
      fs == IF f.kind = "json"
            THEN [i \in 1..Len(f.value) |-> MigrateFolder(f.value[i])]
            ELSE folders
      ns == IF f.kind # "corrupt" /\ n.kind = "json" THEN n.value ELSE notes
  IN /\ ~loaded
     /\ folders' = fs
     /\ notes' = ns
     /\ loaded' = TRUE
     /\ storage' = WriteBack(loaded, storage, TRUE, folders, TRUE, notes)
     /\ last' = [op |-> "load", storage |-> storage]
     /\ UNCHANGED << activeFolderId, activeNoteId, editingFolderId, folderDraft,
                     search, expandedFolders, now, nextId >>

\* the two save effects of the render that follows the load
SaveEffects ==
  /\ last.op = "load"
  /\ storage' = WriteBack(loaded, storage, TRUE, folders, TRUE, notes)
  /\ last' = NoCall
  /\ UNCHANGED << folders, notes, activeFolderId, activeNoteId, editingFolderId,
                  folderDraft, search, loaded, expandedFolders, now, nextId >>

\* the handlers, each called once the loading screen is gone (line 299)
LoadedAddFolder == loaded /\ CallAddFolder
LoadedAddSubfolder == loaded /\ CallAddSubfolder
LoadedCommitRename == loaded /\ CallCommitRename
LoadedDeleteFolder == loaded /\ CallDeleteFolder
LoadedAddNote == loaded /\ EditAddNote
LoadedUpdateNote == loaded /\ CallUpdateNote
LoadedDeleteNote == loaded /\ CallDeleteNote

NextLoad ==
  \/ LoadEffect
  \/ SaveEffects
  \/ LoadedAddFolder
  \/ LoadedAddSubfolder
  \/ LoadedCommitRename
  \/ LoadedDeleteFolder
  \/ LoadedAddNote
  \/ LoadedUpdateNote
  \/ LoadedDeleteNote

SpecLoad == InitLoad /\ [][NextLoad]_vars

\* ------------------------------------------------------------------ properties

RECURSIVE leadsTo(_, _, _, _)
\* following parentId links in fs from folder x arrives at id
leadsTo(fs, x, id, fuel) ==
  \/ x = id
  \/ /\ fuel > 0
     /\ \E i \in 1..Len(fs) :
          /\ fs[i].id = x
          /\ fs[i].parentId # NULL
          /\ leadsTo(fs, fs[i].parentId, id, fuel - 1)

\* id, and every folder of fs from which parentId links lead to id
Subtree(fs, id) ==
  { id } \cup { x \in idsOf(fs) : leadsTo(fs, x, id, Len(fs)) }

\* C1: deleteFolder(id) removes exactly the folders of id's subtree and exactly
\* the notes owned by a folder of that subtree; every other folder and note is
\* still there, unchanged and in the same order.
C1_CascadeExact ==
  last.op = "deleteFolder" =>
    LET gone == Subtree(last.folders, last.id)
    IN /\ folders = SelectSeq(last.folders, LAMBDA f : f.id \notin gone)
       /\ notes = SelectSeq(last.notes, LAMBDA n : n.folderId \notin gone)

\* a folder with a subfolder and a sub-subfolder was deleted, a note of a
\* descendant went with it, and a folder and a note are left
C1_Witness ==
  /\ last.op = "deleteFolder"
  /\ Len(last.folders) - Len(folders) >= 2
  /\ Len(folders) >= 1
  /\ Len(notes) >= 1
  /\ \E i \in 1..Len(last.notes) :
       /\ last.notes[i].id \notin noteIdsOf(notes)
       /\ last.notes[i].folderId # last.id

\* C6: for every folder of an acyclic forest, getFolderAndDescendants lists
\* the folder and every folder whose parentId links lead to it, nothing else,
\* and nothing twice.
C6_Descendants ==
  \A id \in idsOf(folders) :
    LET d == getFolderAndDescendants(id)
    IN /\ SetOf(d) = Subtree(folders, id)
       /\ Cardinality(SetOf(d)) = Len(d)
       /\ d[1] = id

\* a chain of three folders, and a folder outside the middle one's subtree
C6_Witness ==
  \E a, b, c \in SetOf(folders) :
    /\ b.parentId = a.id
    /\ c.parentId = b.id
    /\ a.parentId = NULL
    /\ Len(getFolderAndDescendants(a.id)) = 3
    /\ a.id \notin SetOf(getFolderAndDescendants(b.id))

\* C2: every note's folderId is the id of a folder that exists.
C2_NoteOwnerExists ==
  \A i \in 1..Len(notes) : notes[i].folderId \in idsOf(folders)

\* a folder has just been deleted and a note, with its folder, is left
C2_Witness ==
  /\ last.op = "deleteFolder"
  /\ Len(notes) >= 1
  /\ Len(folders) >= 1

\* C3: every folder with a parentId has the id of an existing folder there.
C3_NoDanglingParent ==
  \A i \in 1..Len(folders) :
    folders[i].parentId # NULL => folders[i].parentId \in idsOf(folders)

\* a folder has just been deleted and a subfolder, with its parent, is left
C3_Witness ==
  /\ last.op = "deleteFolder"
  /\ \E i \in 1..Len(folders) : folders[i].parentId # NULL

\* C4: when deleteFolder removes the active folder (the folder itself or a
\* descendant the cascade takes), the selection is "all" and no note is
\* active afterwards; and the active folder is always "all" or an existing
\* folder.
C4_SelectionConsistent ==
  /\ activeFolderId \in idsOf(folders) \cup { ALL }
  /\ (last.op = "deleteFolder"
        /\ last.activeFolderId # ALL
        /\ last.activeFolderId \notin idsOf(folders))
     => (activeFolderId = ALL /\ activeNoteId = NULL)

\* the cascade of deleting a customer took the active subfolder, in which a
\* note was active
C4_Witness ==
  /\ last.op = "deleteFolder"
  /\ last.activeFolderId \notin { ALL, last.id }
  /\ last.activeFolderId \notin idsOf(folders)
  /\ last.activeNoteId # NULL
  /\ activeFolderId = ALL
  /\ activeNoteId = NULL

\* C5: the active note is null or the id of an existing note.
C5_ActiveNoteExists ==
  activeNoteId = NULL \/ activeNoteId \in noteIdsOf(notes)

\* C7: every folder is top-level or the child of a top-level folder.
C7_DepthAtMostTwo ==
  \A i \in 1..Len(folders) :
    \/ folders[i].parentId = NULL
    \/ \E j \in 1..Len(folders) :
         /\ folders[j].id = folders[i].parentId
         /\ folders[j].parentId = NULL

\* a subfolder is the active folder, its row drawn and not being renamed
C7_Witness ==
  \E f \in renderedSubs :
    /\ f.id = activeFolderId
    /\ editingFolderId = NULL

\* every character of s is whitespace
isBlank(s) == \A i \in 1..Len(s) : s[i] \in Whitespace

\* name is draft without its leading and trailing whitespace
isTrimOf(name, draft) ==
  \E a, b \in 0..Len(draft) :
    /\ a + b <= Len(draft)
    /\ name = SubSeq(draft, a + 1, Len(draft) - b)
    /\ isBlank(SubSeq(draft, 1, a))
    /\ isBlank(SubSeq(draft, Len(draft) - b + 1, Len(draft)))
    /\ name # << >>
    /\ name[1] \notin Whitespace
    /\ name[Len(name)] \notin Whitespace

\* C8: commitRename(id) gives the folder the trimmed draft as its name, or
\* "Untitled" when the draft is empty or blank, and changes nothing else of
\* the folder array; a second commit of the same draft changes nothing; and no
\* folder ever has an empty name.
C8_RenameNeverEmpty ==
  /\ \A i \in 1..Len(folders) : folders[i].name # << >>
  /\ last.op = "commitRename" =>
       /\ Len(folders) = Len(last.folders)
       /\ \A i \in 1..Len(folders) :
            IF last.folders[i].id = last.id
            THEN /\ IF isBlank(folderDraft)
                    THEN folders[i].name = Untitled
                    ELSE isTrimOf(folders[i].name, folderDraft)
                 /\ folders[i] = [last.folders[i] EXCEPT !.name = folders[i].name]
            ELSE folders[i] = last.folders[i]
       /\ renamed(folders, last.id, committedName(folderDraft)) = folders

\* a blank, non-empty draft was committed for one of several folders
C8_Witness ==
  /\ last.op = "commitRename"
  /\ folderDraft # << >>
  /\ isBlank(folderDraft)
  /\ Len(folders) >= 2
  /\ \E i \in 1..Len(folders) :
       /\ folders[i].id = last.id
       /\ folders[i].name = Untitled
       /\ last.folders[i].name # Untitled

\* C9: updateNote and deleteNote with the id of no note, and commitRename
\* with the id of no folder, leave both collections as they were.
C9_UnknownIdIgnored ==
  LET unknownNote ==
        /\ last.op \in { "updateNote", "deleteNote" }
        /\ last.id \notin noteIdsOf(last.notes)
      unknownFolder ==
        /\ last.op = "commitRename"
        /\ last.id \notin idsOf(last.folders)
  IN (unknownNote \/ unknownFolder) =>
       (notes = last.notes /\ folders = last.folders)

\* updateNote was called with an unknown id on a list of several notes, at a
\* time later than their last edits
C9_Witness ==
  /\ last.op = "updateNote"
  /\ last.id \notin noteIdsOf(last.notes)
  /\ Len(notes) >= 2
  /\ \A i \in 1..Len(notes) : notes[i].updatedAt < now

\* the place of the note with this id in the note array
placeOf(id) == CHOOSE i \in 1..Len(notes) : notes[i].id = id

\* C10: with the selection "all" and no search text, visibleNotes holds every
\* note once, in descending order of updatedAt, notes of equal updatedAt in
\* the order of the note array.
C10_AllNotesSortedStable ==
  (activeFolderId = ALL /\ search = << >>) =>
    /\ Len(visibleNotes) = Len(notes)
    /\ SetOf(visibleNotes) = SetOf(notes)
    /\ \A i, j \in 1..Len(visibleNotes) :
         i < j =>
           /\ visibleNotes[i].updatedAt >= visibleNotes[j].updatedAt
           /\ visibleNotes[i].updatedAt = visibleNotes[j].updatedAt
                => placeOf(visibleNotes[i].id) < placeOf(visibleNotes[j].id)

\* all notes are listed, two of them edited at the same time and one later
\* that stands behind them in the note array
C10_Witness ==
  /\ activeFolderId = ALL
  /\ search = << >>
  /\ \E i, j, k \in 1..Len(notes) :
       /\ i < j
       /\ j < k
       /\ notes[i].updatedAt = notes[j].updatedAt
       /\ notes[k].updatedAt > notes[j].updatedAt
       /\ visibleNotes[1] = notes[k]

\* the letters c and d are the same but for their case
sameLetter(c, d) ==
  \/ c = d
  \/ { c, d } \in { { "a", "A" }, { "b", "B" } }

\* sub stands somewhere in s, letter for letter but for the case
occursIn(sub, s) ==
  \E k \in 0..(Len(s) - Len(sub)) :
    \A i \in 1..Len(sub) : sameLetter(s[k + i], sub[i])

\* C11: with a folder f selected, visibleNotes holds, once each, exactly the
\* notes whose folder is f or a folder from which parentId links lead to f
\* and that match the search text: the text is empty, or it stands in the
\* title or in the content, the case of the letters set aside.
C11_ScopedSearch ==
  activeFolderId # ALL =>
    LET scope == Subtree(folders, activeFolderId)
        want == { n \in SetOf(notes) :
                    /\ n.folderId \in scope
                    /\ \/ search = << >>
                       \/ occursIn(search, n.title)
                       \/ occursIn(search, n.content) }
    IN /\ SetOf(visibleNotes) = want
       /\ Len(visibleNotes) = Cardinality(want)

\* a subfolder is selected and a text is searched for: the note of its own
\* subfolder is listed for its content, which has the text in the other case,
\* and the note of its parent has the text too and is not listed
C11_Witness ==
  /\ search # << >>
  /\ \E f, c, p \in SetOf(folders) :
       /\ f.id = activeFolderId
       /\ c.parentId = f.id
       /\ f.parentId = p.id
       /\ \E n, o \in SetOf(notes) :
            /\ n.folderId = c.id
            /\ n \in SetOf(visibleNotes)
            /\ ~includes(n.title, search)
            /\ ~includes(n.content, search)
            /\ o.folderId = p.id
            /\ occursIn(search, o.title)
            /\ o \notin SetOf(visibleNotes)

\* C12: updateNote(id, patch) on an existing note gives that note the patched
\* title or content and the time of the call as updatedAt, not an earlier
\* time than it had; its id, folderId, createdAt and its other text, every
\* other note and the order of the notes stay; and after the same call once
\* more every note has the title and the content it had after the first.
C12_UpdateMerges ==
  last.op = "updateNote" =>
    /\ Len(notes) = Len(last.notes)
    /\ \A i \in 1..Len(notes) :
         LET old == last.notes[i]
             new == notes[i]
         IN IF old.id = last.id
            THEN /\ new.id = old.id
                 /\ new.folderId = old.folderId
                 /\ new.createdAt = old.createdAt
                 /\ new.updatedAt = last.time
                 /\ new.updatedAt >= old.updatedAt
                 /\ new.title = IF "title" \in DOMAIN last.patch
                                 THEN last.patch.title ELSE old.title
                 /\ new.content = IF "content" \in DOMAIN last.patch
                                   THEN last.patch.content ELSE old.content
            ELSE new = old
    /\ last.calls = 2 =>
         \A i \in 1..Len(notes) :
           /\ notes[i].title = last.notes[i].title
           /\ notes[i].content = last.notes[i].content

\* the second of two calls that give the second of two notes a new title, made
\* later than the first: the note keeps its content and has a later updatedAt
C12_Witness ==
  /\ last.op = "updateNote"
  /\ last.calls = 2
  /\ Len(notes) = 2
  /\ notes[2].id = last.id
  /\ "title" \in DOMAIN last.patch
  /\ notes[2].title # << >>
  /\ notes[2].content # << >>
  /\ notes[2].updatedAt > last.notes[2].updatedAt

\* the places at which the note just edited stands in visibleNotes
placesOfEdited ==
  { k \in 1..Len(visibleNotes) : visibleNotes[k].id = last.id }

\* C13 as claimed: after updateNote has edited a note that is in visibleNotes,
\* that note is the first element of visibleNotes.
C13_EditedNoteFirst ==
  (last.op = "updateNote" /\ placesOfEdited # { }) =>
    visibleNotes[1].id = last.id

\* C13 as amended: after updateNote has edited a note that is in visibleNotes
\* after the edit, that note stands ahead of every note whose updatedAt is
\* earlier than the time of the edit, and it is the first element unless a
\* listed note that stands before it in the note array has the time of the
\* edit as its updatedAt.
C13_EditedNoteLeads ==
  (last.op = "updateNote" /\ placesOfEdited # { }) =>
    \A k \in placesOfEdited :
      /\ \A j \in 1..Len(visibleNotes) :
           visibleNotes[j].updatedAt < last.time => k < j
      /\ k = 1 <=>
           ~ \E j \in 1..Len(visibleNotes) :
               /\ visibleNotes[j].updatedAt = last.time
               /\ placeOf(visibleNotes[j].id) < placeOf(last.id)

\* the second note of the array was edited later than the first, under a
\* search text both match, and is listed before it
C13_Witness ==
  /\ last.op = "updateNote"
  /\ search # << >>
  /\ Len(visibleNotes) = 2
  /\ visibleNotes[1].id = last.id
  /\ placeOf(last.id) = 2
  /\ visibleNotes[2].updatedAt < last.time

\* C14: once the load effect has run over a stored snapshot of which the
\* folders entry or the notes entry does not parse, the component has finished
\* loading and both the folder array and the note array are empty.
C14_LoadFailureEmpty ==
  (last.op = "load"
     /\ (last.storage.cn_folders = Corrupt \/ last.storage.cn_notes = Corrupt))
  => (loaded /\ folders = << >> /\ notes = << >>)

\* C15: addNote with a folder selected puts one new note in front of the
\* notes there were, which stay as they were and in their order; the new
\* note has an empty title and content, the selected folder as folderId and
\* createdAt equal to updatedAt, and it is the active note.
C15_AddNoteFront ==
  (last.op = "addNote" /\ last.activeFolderId # ALL) =>
    /\ Len(notes) = Len(last.notes) + 1
    /\ Tail(notes) = last.notes
    /\ notes[1].id \notin noteIdsOf(last.notes)
    /\ notes[1].title = << >>
    /\ notes[1].content = << >>
    /\ notes[1].folderId = last.activeFolderId
    /\ notes[1].createdAt = notes[1].updatedAt
    /\ activeNoteId = notes[1].id

\* C15 but for the two times: everything C15 says of addNote with a folder
\* selected, with createdAt not later than updatedAt in place of equal to it.
C15_AddNoteFrontButTimes ==
  (last.op = "addNote" /\ last.activeFolderId # ALL) =>
    /\ Len(notes) = Len(last.notes) + 1
    /\ Tail(notes) = last.notes
    /\ notes[1].id \notin noteIdsOf(last.notes)
    /\ notes[1].title = << >>
    /\ notes[1].content = << >>
    /\ notes[1].folderId = last.activeFolderId
    /\ notes[1].createdAt = last.time
    /\ notes[1].updatedAt \in { last.time, last.time + 1 }
    /\ activeNoteId = notes[1].id

\* C16: the effects that run while loaded is false leave cn_folders and
\* cn_notes as they found them, so the load effect has read what was stored;
\* and once the component has loaded and its save effects have run, then and
\* after every handler, cn_folders is the serialization of the folder array
\* and cn_notes that of the note array.
C16_NoSaveBeforeLoad ==
  /\ ~loaded => (last = NoCall /\ folders = << >> /\ notes = << >>)
  /\ last.op = "load" =>
       /\ storage = last.storage
       /\ storage.cn_folders.kind = "json" =>
            Len(folders) = Len(storage.cn_folders.value)
       /\ (storage.cn_folders.kind # "corrupt" /\ storage.cn_notes.kind = "json") =>
            notes = storage.cn_notes.value
  /\ (loaded /\ last.op # "load") =>
       storage = [cn_folders |-> Stringify(folders), cn_notes |-> Stringify(notes)]

\* a stored snapshot of folders and notes was loaded, then a note of it was
\* edited, and cn_notes holds the edited notes
C16_Witness ==
  /\ loaded
  /\ last.op = "updateNote"
  /\ folders # << >>
  /\ Len(notes) = 2
  /\ notes # last.notes
  /\ storage.cn_notes = Stringify(notes)
  /\ storage.cn_folders = Stringify(folders)

====
